---- MODULE Spec2Model ----
(***************************************************************************)
(* Model of the two Lambda handlers of demo-devops-agent:                  *)
(*   - the DynamoDB writer (src/lambda/writer.ts), which fires WRITE_COUNT *)
(*     PutItem calls in parallel, tallies the outcomes and throws when any *)
(*     of them was throttled;                                              *)
(*   - the webhook notifier (src/unnamed/part_000; part_001 is an earlier  *)
(*     revision with the same handler and sendWebhook control flow), which *)
(*     turns a CloudWatch alarm event into a signed HTTPS POST.            *)
(* Each Lambda runs in its own Node.js process; `lambda` selects which of  *)
(* the two processes a behaviour follows.                                  *)
(***************************************************************************)
EXTENDS Integers, Sequences, FiniteSets, TLC

VARIABLES
    lambda,         \* which Lambda function this process runs
    WRITE_COUNT,    \* writer.ts:8   module constant, parsed from the environment
    wpc,            \* writer handler position: idle / mapping / awaiting / returned / thrown
    results,        \* writer.ts:21  the WriteResult tally object
    put,            \* per item index: none / inflight / settled (state of its client.send promise)
    outcome,        \* per item index: what the store answered (meaningful once settled)
    nextIndex,      \* writer.ts:31  next index Array.from will call the async callback with
    wResult,        \* value the writer handler's promise resolved with
    wError,         \* error the writer handler's promise rejected with
    envEnabled,     \* process.env.WEBHOOK_ENABLED
    envUrl,         \* process.env.WEBHOOK_URL
    envSecret,      \* process.env.WEBHOOK_SECRET
    npc,            \* notifier handler position: idle / awaiting / returned / thrown
    event,          \* the CloudWatch alarm event the notifier was invoked with
    built,          \* payloads returned by buildWebhookPayload, in call order
    signed,         \* key and message bytes given to the HMAC, one entry per sendWebhook call
    requests,       \* requests handed to https.request (options and written body bytes)
    req,            \* transport state of the request: none / sent / responding / ended / aborted
    reqErrored,     \* the request has emitted 'error'
    resStatus,      \* res.statusCode of the response
    responseBody,   \* part_000:182  chunks accumulated by the 'data' listener
    promise,        \* the promise returned by sendWebhook
    nError          \* error the notifier handler's promise rejected with

writerVars == <<WRITE_COUNT, wpc, results, put, outcome, nextIndex, wResult, wError>>

notifierVars == <<envEnabled, envUrl, envSecret, npc, event, built, signed, requests,
                  req, reqErrored, resStatus, responseBody, promise, nError>>

vars == <<lambda, writerVars, notifierVars>>

----------------------------------------------------------------------------
(* Bounds *)

MaxCount == 3       \* largest WRITE_COUNT explored

MaxChunks == 2      \* most 'data' events of one response

MaxTime == 2        \* wall-clock readings range over 1..MaxTime

----------------------------------------------------------------------------
(* Values *)

Undefined == "<undefined>"

\* writer.ts:8  parseInt performs no range check: the environment may hold a
\* negative number as well as zero or a positive one.
WriteCounts == (0 - 1)..MaxCount

Indices == 0..(MaxCount - 1)

CapacityExceeded == "ProvisionedThroughputExceededException"

ErrorNames == {CapacityExceeded, "ThrottlingException", "ValidationException", Undefined}

OkOutcome == [ok |-> TRUE, name |-> Undefined]

PutOutcomes == {OkOutcome} \cup [ok : {FALSE}, name : ErrorNames]

NoResult == [kind |-> "none"]

NoError == [kind |-> "none"]

----------------------------------------------------------------------------
(* Writer: src/lambda/writer.ts *)

\* Array.from({ length: WRITE_COUNT }, ...): ToLength clamps a negative length to 0.
ArrayLength(n) == IF n < 0 THEN 0 ELSE n

\* Variant of Classify: every error whose name mentions throttling is tallied as throttled
ClassifyAnyThrottle(o) ==
    IF o.ok THEN "success"
    ELSE IF o.name \in {CapacityExceeded, "ThrottlingException"} THEN "throttled"
    ELSE "errors"

\* writer.ts:48-57  which counter a settled PutItem increments
Classify(o) ==
    IF o.ok THEN "success"
    ELSE IF o.name = CapacityExceeded THEN "throttled"
    ELSE "errors"

\* Variant of ShouldThrow: any failed write fails the batch
ShouldThrowOnAnyFailure(r) == r.throttled + r.errors > 0

\* writer.ts:69  the batch fails when a write was throttled
ShouldThrow(r) == r.throttled > 0

\* Variant of ThrottleMessage: the denominator leaves out the other errors
ThrottleMessageShortTotal(r) ==
    [kind      |-> "Error",
     prefix    |-> "Throttling occurred: ",
     throttled |-> r.throttled,
     sep       |-> "/",
     attempted |-> r.success + r.throttled,
     suffix    |-> " requests were throttled"]

\* writer.ts:70  the template string of the thrown error
ThrottleMessage(r) ==
    [kind      |-> "Error",
     prefix    |-> "Throttling occurred: ",
     throttled |-> r.throttled,
     sep       |-> "/",
     attempted |-> r.totalAttempts,
     suffix    |-> " requests were throttled"]

WriterInit ==
    /\ WRITE_COUNT \in WriteCounts
    /\ wpc = "idle"
    /\ results = [success |-> 0, throttled |-> 0, errors |-> 0, totalAttempts |-> 0]
    /\ put = [i \in Indices |-> "none"]
    /\ outcome = [i \in Indices |-> OkOutcome]
    /\ nextIndex = 0
    /\ wResult = NoResult
    /\ wError = NoError

\* writer.ts:17-28  the handler is invoked and builds the empty tally
WriterHandlerStart ==
    /\ lambda = "writer"
    /\ wpc = "idle"
    /\ results' = [success |-> 0, throttled |-> 0, errors |-> 0,
                   totalAttempts |-> WRITE_COUNT]
    /\ nextIndex' = 0
    /\ wpc' = "mapping"
    /\ UNCHANGED <<WRITE_COUNT, put, outcome, wResult, wError>>
    /\ UNCHANGED <<lambda, notifierVars>>

\* Variant of PutItemSend: a sequential loop that awaits each write before it
\* starts the next one (every write answered with success)
PutItemSendSequential ==
    /\ lambda = "writer"
    /\ wpc = "mapping"
    /\ nextIndex < ArrayLength(WRITE_COUNT)
    /\ put' = [put EXCEPT ![nextIndex] = "settled"]
    /\ results' = [results EXCEPT !.success = @ + 1]
    /\ nextIndex' = nextIndex + 1
    /\ UNCHANGED <<WRITE_COUNT, wpc, outcome, wResult, wError>>
    /\ UNCHANGED <<lambda, notifierVars>>

\* writer.ts:31-47  Array.from calls the async callback for index i; it runs
\* synchronously up to `await client.send(...)`, which puts the request in flight.
PutItemSend ==
    /\ lambda = "writer"
    /\ wpc = "mapping"
    /\ nextIndex < ArrayLength(WRITE_COUNT)
    /\ put' = [put EXCEPT ![nextIndex] = "inflight"]
    /\ nextIndex' = nextIndex + 1
    /\ UNCHANGED <<WRITE_COUNT, wpc, results, outcome, wResult, wError>>
    /\ UNCHANGED <<lambda, notifierVars>>

\* writer.ts:61  all callbacks have been started; the handler suspends on Promise.all
AwaitPromiseAll ==
    /\ lambda = "writer"
    /\ wpc = "mapping"
    /\ nextIndex >= ArrayLength(WRITE_COUNT)
    /\ wpc' = "awaiting"
    /\ UNCHANGED <<WRITE_COUNT, results, put, outcome, nextIndex, wResult, wError>>
    /\ UNCHANGED <<lambda, notifierVars>>

\* Variant of PutItemSettle: the capacity branch falls through, so a throttled
\* write is tallied as throttled and as an error
PutItemSettleFallThrough(i, o) ==
    /\ lambda = "writer"
    /\ wpc = "awaiting"
    /\ put[i] = "inflight"
    /\ put' = [put EXCEPT ![i] = "settled"]
    /\ outcome' = [outcome EXCEPT ![i] = o]
    /\ results' = IF Classify(o) = "throttled"
                  THEN [results EXCEPT !.throttled = @ + 1, !.errors = @ + 1]
                  ELSE [results EXCEPT ![Classify(o)] = @ + 1]
    /\ UNCHANGED <<WRITE_COUNT, wpc, nextIndex, wResult, wError>>
    /\ UNCHANGED <<lambda, notifierVars>>

\* Variant of PutItemSettle: the catch block has no else branch, so an error
\* other than the capacity error is not tallied
PutItemSettleNoElse(i, o) ==
    /\ lambda = "writer"
    /\ wpc = "awaiting"
    /\ put[i] = "inflight"
    /\ put' = [put EXCEPT ![i] = "settled"]
    /\ outcome' = [outcome EXCEPT ![i] = o]
    /\ results' = IF Classify(o) = "errors" THEN results
                  ELSE [results EXCEPT ![Classify(o)] = @ + 1]
    /\ UNCHANGED <<WRITE_COUNT, wpc, nextIndex, wResult, wError>>
    /\ UNCHANGED <<lambda, notifierVars>>

\* writer.ts:41-58  the send promise of item i settles with outcome o and the
\* callback resumes in its try or catch branch.  Continuations only run once
\* the handler's synchronous part has yielded.
PutItemSettle(i, o) ==
    /\ lambda = "writer"
    /\ wpc = "awaiting"
    /\ put[i] = "inflight"
    /\ put' = [put EXCEPT ![i] = "settled"]
    /\ outcome' = [outcome EXCEPT ![i] = o]
    /\ results' = [results EXCEPT ![Classify(o)] = @ + 1]
    /\ UNCHANGED <<WRITE_COUNT, wpc, nextIndex, wResult, wError>>
    /\ UNCHANGED <<lambda, notifierVars>>

\* Variant of PromiseAllResolved: the join resolves as soon as one callback
\* has finished (Promise.race instead of Promise.all)
PromiseRaceResolved ==
    /\ lambda = "writer"
    /\ wpc = "awaiting"
    /\ \/ \E i \in Indices : put[i] = "settled"
       \/ \A i \in Indices : put[i] = "none"
    /\ IF ShouldThrow(results)
       THEN /\ wpc' = "thrown"
            /\ wError' = ThrottleMessage(results)
            /\ wResult' = wResult
       ELSE /\ wpc' = "returned"
            /\ wResult' = [kind |-> "WriteResult", value |-> results]
            /\ wError' = wError
    /\ UNCHANGED <<WRITE_COUNT, results, put, outcome, nextIndex>>
    /\ UNCHANGED <<lambda, notifierVars>>

\* writer.ts:61-75  Promise.all resolves once every callback promise has
\* resolved; the handler then throws or returns.
PromiseAllResolved ==
    /\ lambda = "writer"
    /\ wpc = "awaiting"
    /\ \A i \in Indices : put[i] # "inflight"
    /\ IF ShouldThrow(results)
       THEN /\ wpc' = "thrown"
            /\ wError' = ThrottleMessage(results)
            /\ wResult' = wResult
       ELSE /\ wpc' = "returned"
            /\ wResult' = [kind |-> "WriteResult", value |-> results]
            /\ wError' = wError
    /\ UNCHANGED <<WRITE_COUNT, results, put, outcome, nextIndex>>
    /\ UNCHANGED <<lambda, notifierVars>>

----------------------------------------------------------------------------
(* Notifier: src/unnamed/part_000 (webhook-notifier) *)

EnvEnabledValues == {"true", "false", "1", Undefined}

EnvUrlValues == {Undefined, "", "https://example.test/hook", "not a url"}

EnvSecretValues == {Undefined, "", "s3cr3t"}

StateValues == {"ALARM", "OK", "INSUFFICIENT_DATA", Undefined}

\* Events the alarm source may deliver; optional fields may be absent.
Events ==
    [alarmName : {Undefined, "demo alarm"},
     stateValue : StateValues,
     reason : {Undefined, "Threshold Crossed"},
     timestamp : {Undefined},
     accountId : {Undefined},
     region : {Undefined},
     alarmArn : {Undefined, "arn:aws:cloudwatch:alarm"}]

NoEvent == [kind |-> "none"]

Times == 1..MaxTime

StatusCodes == {199, 200, 299, 300, 500}

\* res.statusCode is a number or undefined
ResStatuses == [def : {TRUE}, code : StatusCodes] \cup {[def |-> FALSE, code |-> 0]}

NoStatus == [def |-> FALSE, code |-> 0]

Chunks == {"a", "b"}

TransportErrors == {"ECONNRESET", "ETIMEDOUT"}

Pending == [state |-> "pending"]

Resolved == [state |-> "resolved"]

Rejected(e) == [state |-> "rejected", error |-> e]

\* JavaScript `a || b` on an optional string: undefined and '' are falsy
Or(a, b) == IF a = Undefined \/ a = "" THEN b ELSE a

\* Variant of WEBHOOK_ENABLED: any non-empty value of the variable enables the webhook
WEBHOOK_ENABLED_Truthy == envEnabled # Undefined /\ envEnabled # ""

\* part_000:6
WEBHOOK_ENABLED == envEnabled = "true"

\* part_000:7
WEBHOOK_URL == Or(envUrl, "")

\* part_000:8
WEBHOOK_SECRET == Or(envSecret, "")

\* part_000:9  SERVICE_NAME is not set by the stack
SERVICE_NAME == Or(Undefined, "DemoDevOpsAgent")

\* new Date(t).toISOString()
ToISOString(t) == <<"iso8601", t>>

\* part_000:129  alarmName.replace(/\s+/g, '-') on the names of the model
ReplaceWhitespace(name) == IF name = "demo alarm" THEN "demo-alarm" ELSE
                           IF name = "Unknown Alarm" THEN "Unknown-Alarm" ELSE name

\* part_000:121-154
buildWebhookPayload(alarmName, stateReason, timestamp, region, accountId, alarmArn, now) ==
    [eventType |-> "incident",
     incidentId |-> <<ReplaceWhitespace(alarmName), "-", now>>,
     action |-> "created",
     priority |-> "HIGH",
     title |-> <<"[CloudWatch Alarm] ", alarmName>>,
     description |-> stateReason,
     service |-> SERVICE_NAME,
     timestamp |-> timestamp,
     region |-> region,
     environment |-> "production",
     affectedResources |-> IF alarmArn # "" THEN <<alarmArn>> ELSE <<>>,
     alarmName |-> alarmName,
     alarmArn |-> alarmArn,
     accountId |-> accountId]

\* JSON.stringify(payload): the fields in declaration order
Stringify(p) ==
    <<"{", p.eventType, p.incidentId, p.action, p.priority, p.title, p.description,
      p.service, p.timestamp, p.region, p.environment, p.affectedResources,
      p.alarmName, p.alarmArn, p.accountId, "}">>

\* The UTF-8 bytes of a string: hmac.update(str, 'utf8') and req.write(str)
\* both encode the string they are given as UTF-8
Utf8(str) == [encoding |-> "utf8", str |-> str]

\* Variant of SigningInput: only the body is signed
SigningInputBodyOnly(timestamp, payloadString) == payloadString

\* part_000:162  the template string `${timestamp}:${payloadString}`
SigningInput(timestamp, payloadString) == <<timestamp, ":", payloadString>>

\* part_000:161-163  crypto.createHmac('sha256', key).update(msg).digest('base64')
HmacSha256Base64(key, msg) == [mac |-> "hmac-sha256/base64", key |-> key, msg |-> msg]

\* new url.URL(u) parses u or throws TypeError
UrlParses(u) == u = "https://example.test/hook"

ParsedUrl(u) == [hostname |-> "example.test", port |-> "", pathname |-> "/hook", search |-> ""]

\* Variant of HandlerPath: only the OK state is skipped
HandlerPathSkipOkOnly(alarmState) ==
    IF alarmState = "OK" THEN "skip"
    ELSE IF ~WEBHOOK_ENABLED THEN "dryrun"
    ELSE IF WEBHOOK_URL = "" THEN "nourl"
    ELSE IF WEBHOOK_SECRET = "" THEN "nosecret"
    ELSE "send"

\* Variant of HandlerPath: the secret is not validated
HandlerPathNoSecretCheck(alarmState) ==
    IF alarmState # "ALARM" THEN "skip"
    ELSE IF ~WEBHOOK_ENABLED THEN "dryrun"
    ELSE IF WEBHOOK_URL = "" THEN "nourl"
    ELSE "send"

\* Variant of HandlerPath: the configuration is validated first
HandlerPathValidateFirst(alarmState) ==
    IF WEBHOOK_URL = "" THEN "nourl"
    ELSE IF WEBHOOK_SECRET = "" THEN "nosecret"
    ELSE IF alarmState # "ALARM" THEN "skip"
    ELSE IF ~WEBHOOK_ENABLED THEN "dryrun"
    ELSE "send"

\* part_000:86-117  the branch the handler takes
HandlerPath(alarmState) ==
    IF alarmState # "ALARM" THEN "skip"
    ELSE IF ~WEBHOOK_ENABLED THEN "dryrun"
    ELSE IF WEBHOOK_URL = "" THEN "nourl"
    ELSE IF WEBHOOK_SECRET = "" THEN "nosecret"
    ELSE "send"

\* part_000:105, 110  the configuration errors
ConfigError(path) ==
    [kind |-> "Error",
     message |-> IF path = "nourl"
                 THEN "WEBHOOK_URL is required when WEBHOOK_ENABLED=true"
                 ELSE "WEBHOOK_SECRET is required when WEBHOOK_ENABLED=true"]

\* Variant of IsSuccessStatus: the upper bound is inclusive
IsSuccessStatusUpTo300(s) == s.def /\ s.code # 0 /\ s.code >= 200 /\ s.code <= 300

\* part_000:190  which statuses resolve the promise
IsSuccessStatus(s) == s.def /\ s.code # 0 /\ s.code >= 200 /\ s.code < 300

\* part_000:193
DeliveryError(status, body) ==
    [kind |-> "Error", prefix |-> "Webhook failed with status ",
     status |-> status, sep |-> ": ", body |-> body]

TransportError(code) == [kind |-> "TransportError", code |-> code]

\* resolve()/reject() of a promise that is already settled have no effect
Settle(p, v) == IF p.state = "pending" THEN v ELSE p

NotifierInit ==
    /\ envEnabled \in EnvEnabledValues
    /\ envUrl \in EnvUrlValues
    /\ envSecret \in EnvSecretValues
    /\ npc = "idle"
    /\ event = NoEvent
    /\ built = <<>>
    /\ signed = <<>>
    /\ requests = <<>>
    /\ req = "none"
    /\ reqErrored = FALSE
    /\ resStatus = NoStatus
    /\ responseBody = <<>>
    /\ promise = [state |-> "none"]
    /\ nError = NoError

\* part_000:156-205  sendWebhook up to the return of the promise: sign, parse
\* the URL, create the request, write the body and end it.
sendWebhook(payload, now) ==
    LET payloadString == Stringify(payload)
        timestamp == ToISOString(now)
        message == Utf8(SigningInput(timestamp, payloadString))
        signature == HmacSha256Base64(WEBHOOK_SECRET, message)
        parsedUrl == ParsedUrl(WEBHOOK_URL)
        options == [hostname |-> parsedUrl.hostname,
                    port |-> Or(parsedUrl.port, "443"),
                    path |-> <<parsedUrl.pathname, parsedUrl.search>>,
                    method |-> "POST",
                    contentType |-> "application/json",
                    contentLength |-> Len(payloadString),
                    eventTimestamp |-> timestamp,
                    eventSignature |-> signature]
    IN  /\ signed' = Append(signed, [key |-> WEBHOOK_SECRET, message |-> message])
        /\ IF UrlParses(WEBHOOK_URL)
           THEN /\ requests' = Append(requests, [options |-> options,
                                                   written |-> Utf8(payloadString)])
                /\ req' = "sent"
                /\ promise' = Pending
                /\ npc' = "awaiting"
                /\ nError' = nError
           ELSE /\ requests' = requests
                /\ req' = req
                /\ promise' = Rejected([kind |-> "TypeError", message |-> "Invalid URL"])
                /\ npc' = "thrown"
                /\ nError' = [kind |-> "TypeError", message |-> "Invalid URL"]

\* part_000:71-119  the handler from its invocation to its first suspension
\* (or to its return or throw); t0 <= t1 are the clock readings it takes.
NotifierHandler(e, t0, t1) ==
    LET alarmName == Or(e.alarmName, "Unknown Alarm")
        alarmState == Or(e.stateValue, "UNKNOWN")
        stateReason == Or(e.reason, "No reason provided")
        timestamp == IF e.timestamp = Undefined \/ e.timestamp = ""
                     THEN ToISOString(t0) ELSE <<"event", e.timestamp>>
        accountId == Or(e.accountId, "unknown")
        region == Or(e.region, "us-east-1")
        alarmArn == Or(e.alarmArn, "")
        path == HandlerPath(alarmState)
        payload == buildWebhookPayload(alarmName, stateReason, timestamp, region,
                                       accountId, alarmArn, t0)
    IN  /\ lambda = "notifier"
        /\ npc = "idle"
        /\ t0 <= t1
        /\ event' = e
        /\ built' = IF path \in {"dryrun", "send"} THEN Append(built, payload) ELSE built
        /\ IF path = "send"
           THEN sendWebhook(payload, t1)
           ELSE /\ npc' = IF path \in {"skip", "dryrun"} THEN "returned" ELSE "thrown"
                /\ nError' = IF path \in {"skip", "dryrun"} THEN nError ELSE ConfigError(path)
                /\ UNCHANGED <<signed, requests, req, promise>>
        /\ UNCHANGED <<envEnabled, envUrl, envSecret, reqErrored, resStatus, responseBody>>
        /\ UNCHANGED <<lambda, writerVars>>

\* part_000:181-182  the response arrives: the request callback runs
ResponseCallback(status) ==
    /\ lambda = "notifier"
    /\ req = "sent"
    /\ ~reqErrored
    /\ req' = "responding"
    /\ resStatus' = status
    /\ responseBody' = <<>>
    /\ UNCHANGED <<envEnabled, envUrl, envSecret, npc, event, built, signed, requests,
                   reqErrored, promise, nError>>
    /\ UNCHANGED <<lambda, writerVars>>

\* part_000:183-185  res 'data'
ResOnData(chunk) ==
    /\ lambda = "notifier"
    /\ req = "responding"
    /\ Len(responseBody) < MaxChunks
    /\ responseBody' = Append(responseBody, chunk)
    /\ UNCHANGED <<envEnabled, envUrl, envSecret, npc, event, built, signed, requests,
                   req, reqErrored, resStatus, promise, nError>>
    /\ UNCHANGED <<lambda, writerVars>>

\* Variant of ResOnEnd: a response with a failure status is answered by
\* sending the request again
ResOnEndRetry ==
    /\ lambda = "notifier"
    /\ req = "responding"
    /\ IF IsSuccessStatus(resStatus)
       THEN /\ req' = "ended"
            /\ promise' = Settle(promise, Resolved)
            /\ requests' = requests
       ELSE /\ req' = "sent"
            /\ promise' = promise
            /\ requests' = Append(requests, requests[Len(requests)])
    /\ UNCHANGED <<envEnabled, envUrl, envSecret, npc, event, built, signed,
                   reqErrored, resStatus, responseBody, nError>>
    /\ UNCHANGED <<lambda, writerVars>>

\* part_000:186-195  res 'end'
ResOnEnd ==
    /\ lambda = "notifier"
    /\ req = "responding"
    /\ req' = "ended"
    /\ promise' = Settle(promise, IF IsSuccessStatus(resStatus)
                                  THEN Resolved
                                  ELSE Rejected(DeliveryError(resStatus, responseBody)))
    /\ UNCHANGED <<envEnabled, envUrl, envSecret, npc, event, built, signed, requests,
                   reqErrored, resStatus, responseBody, nError>>
    /\ UNCHANGED <<lambda, writerVars>>

\* part_000:198-201  req 'error' (emitted at most once per request)
ReqOnError(code) ==
    /\ lambda = "notifier"
    /\ req \in {"sent", "responding", "ended"}
    /\ ~reqErrored
    /\ reqErrored' = TRUE
    /\ promise' = Settle(promise, Rejected(TransportError(code)))
    /\ UNCHANGED <<envEnabled, envUrl, envSecret, npc, event, built, signed, requests,
                   req, resStatus, responseBody, nError>>
    /\ UNCHANGED <<lambda, writerVars>>

\* The response stream is cut before 'end': res emits 'aborted'/'close', for
\* which part_000:181-196 registers no listener.
ResAborted ==
    /\ lambda = "notifier"
    /\ req = "responding"
    /\ req' = "aborted"
    /\ UNCHANGED <<envEnabled, envUrl, envSecret, npc, event, built, signed, requests,
                   reqErrored, resStatus, responseBody, promise, nError>>
    /\ UNCHANGED <<lambda, writerVars>>

\* Variant of AwaitSendWebhook: a rejected delivery is logged and swallowed
AwaitSendWebhookSwallow ==
    /\ lambda = "notifier"
    /\ npc = "awaiting"
    /\ promise.state \in {"resolved", "rejected"}
    /\ npc' = "returned"
    /\ nError' = nError
    /\ UNCHANGED <<envEnabled, envUrl, envSecret, event, built, signed, requests,
                   req, reqErrored, resStatus, responseBody, promise>>
    /\ UNCHANGED <<lambda, writerVars>>

\* part_000:117-119  `await sendWebhook(payload)` resumes once the promise is settled
AwaitSendWebhook ==
    /\ lambda = "notifier"
    /\ npc = "awaiting"
    /\ promise.state \in {"resolved", "rejected"}
    /\ IF promise.state = "resolved"
       THEN npc' = "returned" /\ nError' = nError
       ELSE npc' = "thrown" /\ nError' = promise.error
    /\ UNCHANGED <<envEnabled, envUrl, envSecret, event, built, signed, requests,
                   req, reqErrored, resStatus, responseBody, promise>>
    /\ UNCHANGED <<lambda, writerVars>>

----------------------------------------------------------------------------

\* One process runs one of the two functions; the configuration of the other
\* function is not part of its environment.
Init ==
    /\ lambda \in {"writer", "notifier"}
    /\ WriterInit
    /\ NotifierInit
    /\ lambda = "writer" =>
           envEnabled = Undefined /\ envUrl = Undefined /\ envSecret = Undefined
    /\ lambda = "notifier" => WRITE_COUNT = 0

Next ==
    \/ WriterHandlerStart
    \/ PutItemSend
    \/ AwaitPromiseAll
    \/ \E i \in Indices, o \in PutOutcomes : PutItemSettle(i, o)
    \/ PromiseAllResolved
    \/ \E e \in Events, t0 \in Times, t1 \in Times : NotifierHandler(e, t0, t1)
    \/ \E s \in ResStatuses : ResponseCallback(s)
    \/ \E c \in Chunks : ResOnData(c)
    \/ ResOnEnd
    \/ \E c \in TransportErrors : ReqOnError(c)
    \/ ResAborted
    \/ AwaitSendWebhook

Spec == Init /\ [][Next]_vars

\* The event loop runs every callback that is ready, and the transport always
\* delivers the next event of a request when it has one to deliver.
FairSpec == Spec /\ WF_vars(Next)

----------------------------------------------------------------------------
(* Properties of the writer *)

WriterFinished == wpc \in {"returned", "thrown"}

\* the item indices of the batch
Batch == {i \in Indices : i < WRITE_COUNT}

OkItems == {i \in Batch : outcome[i].ok}

ThrottledItems == {i \in Batch : ~outcome[i].ok /\ outcome[i].name = CapacityExceeded}

FailedItems == {i \in Batch : ~outcome[i].ok /\ outcome[i].name # CapacityExceeded}

\* C1: when the writer handler has finished, it has thrown if and only if the
\* final throttled count is > 0; with throttled = 0 it has returned the
\* aggregated tally, whatever the number of other errors.
C1_FailsIffThrottled ==
    WriterFinished =>
        /\ (wpc = "thrown") <=> (results.throttled > 0)
        /\ results.throttled = 0 => wResult = [kind |-> "WriteResult", value |-> results]
        /\ wpc = "thrown" => wError.kind = "Error" /\ wResult = NoResult
        /\ wpc = "returned" => wError = NoError

C1_Witness ==
    /\ wpc = "returned"
    /\ results.errors > 1
    /\ results.success > 0

\* C2: when the writer handler has finished (returned or thrown) on a batch
\* size (WRITE_COUNT >= 0), totalAttempts = success + throttled + errors.
C2_TallySumsToAttempts ==
    (WriterFinished /\ WRITE_COUNT >= 0) =>
        results.totalAttempts = results.success + results.throttled + results.errors

C2_Witness ==
    /\ wpc = "thrown"
    /\ results.success > 0
    /\ results.throttled > 0
    /\ results.errors > 0

\* C3: for a batch of N > 0 writes, the final tallies are the numbers of puts
\* the store answered with success, with the capacity error and with any other
\* error; a store that answers every put with success gives success = N,
\* throttled = 0, errors = 0 and the handler returns.
C3_TalliesMatchOutcomes ==
    (WriterFinished /\ WRITE_COUNT > 0) =>
        /\ results.success = Cardinality(OkItems)
        /\ results.throttled = Cardinality(ThrottledItems)
        /\ results.errors = Cardinality(FailedItems)
        /\ OkItems = Batch =>
              /\ wpc = "returned"
              /\ wResult.value = [success |-> WRITE_COUNT, throttled |-> 0,
                                  errors |-> 0, totalAttempts |-> WRITE_COUNT]

C3_Witness ==
    /\ WriterFinished
    /\ WRITE_COUNT >= 2
    /\ \E i \in Batch : ~outcome[i].ok /\ outcome[i].name = "ThrottlingException"
    /\ \E i \in Batch : ~outcome[i].ok /\ outcome[i].name = CapacityExceeded

\* C4: whenever the writer handler fails, its error names the final throttled
\* count and totalAttempts as "<throttled>/<attempted> requests were throttled";
\* with N > 0 writes all answered with the capacity error, throttled = N and
\* the handler fails with the counts N/N.
C4_ErrorCarriesCounts ==
    /\ wpc = "thrown" =>
          /\ wError.throttled = results.throttled
          /\ wError.sep = "/"
          /\ wError.attempted = results.totalAttempts
          /\ wError.suffix = " requests were throttled"
    /\ (WriterFinished /\ WRITE_COUNT > 0 /\ ThrottledItems = Batch) =>
          /\ wpc = "thrown"
          /\ results.throttled = WRITE_COUNT
          /\ wError.throttled = WRITE_COUNT
          /\ wError.attempted = WRITE_COUNT

C4_Witness ==
    /\ wpc = "thrown"
    /\ WRITE_COUNT >= 2
    /\ results.errors > 0
    /\ wError.throttled < wError.attempted

\* C5: the writer handler has neither returned nor thrown while a dispatched
\* write is still in flight: every write of the batch has settled first.
C5_NoShortCircuit ==
    WriterFinished => \A i \in Batch : put[i] = "settled"

C5_Witness ==
    /\ wpc = "thrown"
    /\ WRITE_COUNT >= 2
    /\ Cardinality(ThrottledItems) = 1
    /\ \A i \in Batch : put[i] = "settled"

\* C6: a batch size of 0 is rejected: with WRITE_COUNT = 0 the writer handler
\* never returns a result.
C6_ZeroCountRejected ==
    (lambda = "writer" /\ WRITE_COUNT = 0) => wpc # "returned"

----------------------------------------------------------------------------
(* Properties of the notifier *)

\* C7: once the notifier handler has run, an event whose state value is not
\* "ALARM" has built no payload, signed nothing and issued no request; an event
\* in state "ALARM" has built its payload, in dry-run mode and in enabled mode
\* with non-empty url and secret.
C7_AlarmStateGating ==
    npc # "idle" =>
        /\ event.stateValue # "ALARM" =>
              built = <<>> /\ signed = <<>> /\ requests = <<>> /\ req = "none"
        /\ (/\ event.stateValue = "ALARM"
            /\ \/ envEnabled # "true"
               \/ ~(envUrl \in {Undefined, ""}) /\ ~(envSecret \in {Undefined, ""})) =>
              Len(built) = 1

C7_Witness ==
    /\ npc = "returned"
    /\ event.stateValue = "INSUFFICIENT_DATA"
    /\ envEnabled = "true"
    /\ envUrl = "https://example.test/hook"
    /\ envSecret = "s3cr3t"

\* C8: when WEBHOOK_ENABLED is not 'true', the notifier handler issues no
\* request and, once it has run, has returned normally, for every event, url
\* and secret.
C8_DryRunNoNetwork ==
    envEnabled # "true" =>
        /\ requests = <<>>
        /\ signed = <<>>
        /\ req = "none"
        /\ npc \in {"idle", "returned"}
        /\ nError = NoError

C8_Witness ==
    /\ envEnabled = "false"
    /\ npc = "returned"
    /\ event.stateValue = "ALARM"
    /\ envUrl = "https://example.test/hook"
    /\ envSecret = "s3cr3t"
    /\ Len(built) = 1

\* C9: with the webhook enabled and an ALARM event, an empty url or an empty
\* secret makes the notifier handler throw a configuration error, with no
\* request issued.
C9_ConfigValidated ==
    (/\ npc # "idle"
     /\ event.stateValue = "ALARM"
     /\ envEnabled = "true"
     /\ envUrl \in {Undefined, ""} \/ envSecret \in {Undefined, ""}) =>
        /\ npc = "thrown"
        /\ nError.kind = "Error"
        /\ nError.message = IF envUrl \in {Undefined, ""}
                            THEN "WEBHOOK_URL is required when WEBHOOK_ENABLED=true"
                            ELSE "WEBHOOK_SECRET is required when WEBHOOK_ENABLED=true"
        /\ requests = <<>>
        /\ signed = <<>>
        /\ req = "none"

C9_Witness ==
    /\ npc = "thrown"
    /\ event.stateValue = "ALARM"
    /\ envEnabled = "true"
    /\ envUrl = "https://example.test/hook"
    /\ envSecret = ""

\* C10: the promise of sendWebhook is resolved only by a response that ended
\* with a status in [200,300); a response that ended with any other status, or
\* with none, rejects it with an error carrying that status and the received
\* body; a request error rejects it with the transport error.
C10_DeliveryOutcome ==
    LET success == resStatus.def /\ resStatus.code \in 200..299
    IN  /\ promise.state = "resolved" => req = "ended" /\ success
        /\ (promise.state = "rejected" /\ promise.error.kind = "Error") =>
              /\ req = "ended"
              /\ ~success
              /\ promise.error.status = resStatus
              /\ promise.error.body = responseBody
        /\ (promise.state = "rejected" /\ promise.error.kind = "TransportError") =>
              reqErrored /\ promise.error.code \in TransportErrors
        /\ (req = "ended" /\ ~reqErrored) =>
              IF success THEN promise = Resolved
              ELSE promise = Rejected(DeliveryError(resStatus, responseBody))
        /\ (reqErrored /\ req # "ended") =>
              promise.state = "rejected" /\ promise.error.kind = "TransportError"

C10_Witness ==
    /\ promise.state = "rejected"
    /\ promise.error.kind = "Error"
    /\ promise.error.status = [def |-> TRUE, code |-> 500]
    /\ Len(promise.error.body) = MaxChunks
    /\ npc = "thrown"

\* C11: in every delivery, the bytes written as the request body are the
\* UTF-8 bytes of the payload string fed to the signer, the timestamp header
\* is the timestamp fed to the signer, and the signature header is the MAC,
\* under the configured secret, of exactly timestamp ":" body; the body is the
\* serialization of the payload that was built.
C11_SignatureBindsBodyAndTimestamp ==
    /\ Len(requests) <= Len(signed)
    /\ \A i \in 1..Len(requests) :
          LET r == requests[i]
              s == signed[i]
              body == r.written.str
          IN  /\ r.written.encoding = "utf8"
              /\ s.message = [encoding |-> "utf8",
                              str |-> <<r.options.eventTimestamp, ":", body>>]
              /\ s.key = (IF envSecret \in {Undefined, ""} THEN "" ELSE envSecret)
              /\ s.key # ""
              /\ r.options.eventSignature =
                    [mac |-> "hmac-sha256/base64", key |-> s.key, msg |-> s.message]
              /\ body = Stringify(built[Len(built)])

C11_Witness ==
    /\ Len(requests) = 1
    /\ req = "ended"
    /\ requests[1].options.eventTimestamp = ToISOString(MaxTime)
    /\ built[1].incidentId[3] < MaxTime
    /\ signed[1].key = "s3cr3t"

NotifierFinished == npc \in {"returned", "thrown"}

UrlEmpty == envUrl \in {Undefined, ""}

SecretEmpty == envSecret \in {Undefined, ""}

\* C12: once the notifier handler has finished: it has returned normally if
\* the state is not ALARM or the webhook is not enabled; it has thrown if the
\* url or the secret is empty, or if the delivery was rejected (with the
\* delivery's error); with ALARM, enabled, non-empty url and secret and a
\* response that ended with a 2xx status and no request error, it has
\* returned normally; and it never finishes while a delivery is unsettled.
C12_InvocationOutcome ==
    NotifierFinished =>
        LET alarm == event.stateValue = "ALARM"
            enabled == envEnabled = "true"
            success == resStatus.def /\ resStatus.code \in 200..299
        IN  /\ ~alarm => npc = "returned"
            /\ (alarm /\ ~enabled) => npc = "returned"
            /\ (alarm /\ enabled /\ (UrlEmpty \/ SecretEmpty)) =>
                  npc = "thrown" /\ nError.kind = "Error" /\ promise.state = "none"
            /\ promise.state = "rejected" => npc = "thrown" /\ nError = promise.error
            /\ promise.state = "resolved" => npc = "returned" /\ req = "ended"
            /\ (alarm /\ enabled /\ ~UrlEmpty /\ ~SecretEmpty
                  /\ req = "ended" /\ success /\ ~reqErrored) => npc = "returned"
            /\ requests # <<>> => promise.state \in {"resolved", "rejected"}
            /\ (npc = "returned") <=> (nError = NoError)

C12_Witness ==
    /\ npc = "thrown"
    /\ event.stateValue = "ALARM"
    /\ promise.state = "rejected"
    /\ promise.error.kind = "TransportError"
    /\ req = "responding"
    /\ resStatus = [def |-> TRUE, code |-> 200]

\* C13 as claimed: at most one request per invocation, and exactly one once
\* the handler has run with ALARM, the webhook enabled and url and secret
\* non-empty.
C13_OneRequestWhenNonEmpty ==
    /\ Len(requests) <= 1
    /\ (npc # "idle" /\ event.stateValue = "ALARM" /\ envEnabled = "true"
          /\ ~UrlEmpty /\ ~SecretEmpty) => Len(requests) = 1

\* C13, amended: at most one request per invocation; exactly one once the
\* handler has run with ALARM, the webhook enabled, a non-empty secret and a
\* url that parses; none with a non-empty url that does not parse, where the
\* handler throws the URL's TypeError; no step after the request was issued
\* issues another one, and an error the handler has thrown is never replaced.
C13_SingleShot ==
    /\ [](/\ Len(requests) <= 1
          /\ (npc # "idle" /\ event.stateValue = "ALARM" /\ envEnabled = "true"
                /\ ~SecretEmpty /\ envUrl = "https://example.test/hook") =>
                Len(requests) = 1
          /\ (npc # "idle" /\ event.stateValue = "ALARM" /\ envEnabled = "true"
                /\ ~SecretEmpty /\ envUrl = "not a url") =>
                /\ requests = <<>>
                /\ npc = "thrown"
                /\ nError.kind = "TypeError")
    /\ [][/\ npc # "idle" => requests' = requests
          /\ npc = "thrown" => (npc' = "thrown" /\ nError' = nError)
          /\ npc = "returned" => (npc' = "returned" /\ nError' = NoError)]_vars

C13_Witness ==
    /\ Len(requests) = 1
    /\ npc = "thrown"
    /\ nError.kind = "Error"
    /\ nError.status = [def |-> TRUE, code |-> 500]
    /\ reqErrored

Tallied == results.success + results.throttled + results.errors

SettledItems == {i \in Indices : put[i] = "settled"}

\* C14: for a batch size (WRITE_COUNT >= 0), in every reachable state the sum
\* success + throttled + errors is the number of writes that have settled so
\* far, each counter is the number of settled writes of its class, and the sum
\* never exceeds totalAttempts; every step leaves the counters unchanged or
\* adds exactly one to exactly one of them.
C14_EachAttemptCountedOnce ==
    /\ []((wpc # "idle" /\ WRITE_COUNT >= 0) =>
            /\ Tallied = Cardinality(SettledItems)
            /\ results.success = Cardinality({i \in SettledItems : outcome[i].ok})
            /\ results.throttled =
                  Cardinality({i \in SettledItems :
                                  ~outcome[i].ok /\ outcome[i].name = CapacityExceeded})
            /\ Tallied <= results.totalAttempts
            /\ results.totalAttempts = WRITE_COUNT)
    /\ [][/\ results.success' >= results.success
          /\ results.throttled' >= results.throttled
          /\ results.errors' >= results.errors
          /\ Tallied' - Tallied = Cardinality(SettledItems') - Cardinality(SettledItems)
          /\ Tallied' - Tallied \in {0, 1}]_vars

C14_Witness ==
    /\ wpc = "awaiting"
    /\ WRITE_COUNT >= 3
    /\ put[0] = "inflight"
    /\ put[1] = "settled"
    /\ put[2] = "settled"
    /\ results.throttled = 1
    /\ results.errors = 1

\* C15: the writes are started without waiting on each other: while the
\* handler is still starting writes none has settled and every started write
\* is in flight, so at the moment the handler suspends on the join all N
\* writes are in flight at once; after that it starts no further write and
\* suspends nowhere else before it finishes.
C15_AllLaunchedBeforeJoin ==
    /\ [](/\ wpc = "mapping" =>
                \A i \in Indices : put[i] = (IF i < nextIndex THEN "inflight" ELSE "none")
          /\ wpc \in {"awaiting", "returned", "thrown"} =>
                \A i \in Indices : (put[i] # "none") <=> (i < WRITE_COUNT))
    /\ [][/\ (wpc = "mapping" /\ wpc' = "awaiting") =>
                \A i \in Indices : i < WRITE_COUNT => put'[i] = "inflight"
          /\ wpc = "awaiting" => wpc' \in {"awaiting", "returned", "thrown"}
          /\ wpc \in {"returned", "thrown"} => wpc' = wpc]_vars

C15_Witness ==
    /\ wpc = "awaiting"
    /\ WRITE_COUNT = MaxCount
    /\ \A i \in Indices : put[i] = "inflight"

\* C16: once sendWebhook has issued its request, the promise it returned
\* eventually settles (resolves or rejects).
C16_PromiseEventuallySettles ==
    (req = "sent") ~> (promise.state \in {"resolved", "rejected"})

\* C17: the state gate comes before the dry-run check, which comes before the
\* configuration validation: once the handler has run, an event whose state is
\* not ALARM has returned without an error whatever the configuration, and an
\* ALARM event in dry-run mode has built its payload and returned without an
\* error whatever the url and secret; a configuration error is thrown only
\* for an ALARM event with the webhook enabled.
C17_CheckOrder ==
    npc # "idle" =>
        /\ event.stateValue # "ALARM" =>
              npc = "returned" /\ nError = NoError /\ built = <<>>
        /\ (event.stateValue = "ALARM" /\ envEnabled # "true") =>
              npc = "returned" /\ nError = NoError /\ Len(built) = 1
        /\ (nError.kind = "Error" /\ promise.state = "none") =>
              /\ event.stateValue = "ALARM"
              /\ envEnabled = "true"
              /\ UrlEmpty \/ SecretEmpty
              /\ nError = ConfigError(IF UrlEmpty THEN "nourl" ELSE "nosecret")

C17_Witness ==
    /\ npc = "returned"
    /\ event.stateValue = "OK"
    /\ envEnabled = "true"
    /\ envUrl = ""
    /\ envSecret = Undefined

====
